---------------------------- MODULE Spec2Model ----------------------------
(***************************************************************************)
(* Matching engine of the medical data integration toolkit:                *)
(*   - the join-key normalizer of the merge tool                           *)
(*     (tools/advanced_merge_gui.py, _normalize_join_key),                 *)
(*   - DataMatcher (src/mdip/core/matcher.py): prepare_matching_fields,    *)
(*     find_exact_matches, find_fuzzy_matches, _detect_best_strategy,      *)
(*     _execute_matching_strategy, _exact_matching, match_and_merge,       *)
(*   - the collaborators match_and_merge calls: clean_basic_data and       *)
(*     validate_dataframe.                                                 *)
(*                                                                         *)
(* A text value is a sequence of one-character strings.  A cell is a       *)
(* record [null, s]: a missing value (NaN/None) or a text.                 *)
(* Similarity scores and thresholds are integers in percent (a score of    *)
(* 0.86 is 86), so that comparisons are exact.                             *)
(***************************************************************************)
EXTENDS Integers, Sequences, FiniteSets, TLC

VARIABLES
    \* join-key normalizer
    series_raw,          \* the value as supplied
    series,              \* the value after `passes` normalizations
    series_once,         \* the value after the first normalization
    passes,              \* number of normalizations applied so far
    \* exact matcher
    df1, df2,            \* the two datasets handed to the matcher
    exact_res,           \* outcome of the last exact-matcher call
    \* fuzzy matcher
    fz_left, fz_right,   \* the two datasets handed to find_fuzzy_matches
    fz_res,              \* outcome of the last find_fuzzy_matches call
    \* match_and_merge
    loaded_files,        \* self.loaded_files, in insertion order
    match_results,       \* self.match_results
    validation_history,  \* len(self.validator.validation_history)
    call,                \* the last call on the DataMatcher and its outcome
    \* quality assessment
    q_df,                \* the dataset handed to the QualityAssessment
    q_res,               \* outcome of the last QualityAssessment call
    assessment_history,  \* self.assessment_history
    assessments_returned, \* generate_overall_assessment calls that returned
    \* match confidence
    matching_rules,      \* self.match_config.matching_rules of the DataMatcher
    record1, record2,    \* the two records handed to calculate_match_confidence
    conf_fields,         \* the match_fields handed to it
    conf_res             \* outcome of the last calculate_match_confidence call

keyVars   == <<series_raw, series, series_once, passes>>
exactVars == <<df1, df2, exact_res>>
fuzzyVars == <<fz_left, fz_right, fz_res>>
mergeVars == <<loaded_files, match_results, validation_history, call>>
qualityVars == <<q_df, q_res, assessment_history, assessments_returned>>
confVars == <<matching_rules, record1, record2, conf_fields, conf_res>>
vars      == <<keyVars, exactVars, fuzzyVars, mergeVars, qualityVars, confVars>>

----------------------------------------------------------------------------
(* Bounds of the model *)

MaxKeyLen == 4

----------------------------------------------------------------------------
(* Text values and cells *)

Str(s) == [null |-> FALSE, s |-> s]

NaN == [null |-> TRUE, s |-> <<>>]

\* U+3000, the full-width (ideographic) space
FullWidthSpace == "U+3000"

\* what Python's str.strip() and the regex class \s take for white space
Whitespace == {" ", "\t", FullWidthSpace}

\* all texts over alphabet `chars` of length at most n
TextsUpTo(chars, n) == UNION {[1..k -> chars] : k \in 0..n}

\* str.replace(old, new, regex=False) for one-character old and new
ReplaceChar(s, old, new) == [i \in 1..Len(s) |-> IF s[i] = old THEN new ELSE s[i]]

RECURSIVE LStrip(_)
LStrip(s) == IF s # <<>> /\ Head(s) \in Whitespace THEN LStrip(Tail(s)) ELSE s

RECURSIVE RStrip(_)
RStrip(s) ==
    IF s # <<>> /\ s[Len(s)] \in Whitespace
    THEN RStrip(SubSeq(s, 1, Len(s) - 1))
    ELSE s

\* str.strip()
Strip(s) == RStrip(LStrip(s))

\* str.replace(r'\s+', ' ', regex=True): every maximal run of white space
\* becomes one ordinary space
RECURSIVE CollapseWhitespace(_)
CollapseWhitespace(s) ==
    IF s = <<>> THEN <<>>
    ELSE IF Head(s) \in Whitespace
         THEN <<" ">> \o CollapseWhitespace(LStrip(s))
         ELSE <<Head(s)>> \o CollapseWhitespace(Tail(s))

\* str.replace(r'\.0$', '', regex=True)
RemoveTrailingDotZero(s) ==
    IF Len(s) >= 2 /\ s[Len(s) - 1] = "." /\ s[Len(s)] = "0"
    THEN SubSeq(s, 1, Len(s) - 2)
    ELSE s

\* MergeToolGUI._normalize_join_key on one value of the series; a missing
\* value stays missing under the string dtype
NormalizeJoinKey(v) ==
    IF v.null THEN v
    ELSE Str(RemoveTrailingDotZero(
                CollapseWhitespace(
                    Strip(ReplaceChar(v.s, FullWidthSpace, " ")))))

----------------------------------------------------------------------------
(* Join-key normalizer: the key column is normalized, and may be           *)
(* normalized again (the tool normalizes on every merge).                  *)

KeyAlphabet == {"1", "0", ".", " ", "\t", FullWidthSpace}

KeyValues == {NaN} \cup {Str(s) : s \in TextsUpTo(KeyAlphabet, MaxKeyLen)}

MaxPasses == 2

KeyIdle ==
    /\ series_raw = NaN
    /\ series = NaN
    /\ series_once = NaN
    /\ passes = 0

KeyInit ==
    /\ series_raw \in KeyValues
    /\ series = series_raw
    /\ series_once = series_raw
    /\ passes = 0

NormalizeJoinKeyCall ==
    /\ passes < MaxPasses
    /\ series' = NormalizeJoinKey(series)
    /\ series_once' = IF passes = 0 THEN NormalizeJoinKey(series) ELSE series_once
    /\ passes' = passes + 1
    /\ UNCHANGED series_raw

----------------------------------------------------------------------------
(* Datasets of the exact matcher.  A DataFrame is its key column (dtype    *)
(* and cells); a row is identified by its position, which stands for the   *)
(* row's other columns.  A number is written as the text of its digits.    *)

MaxRows == 3

Min(a, b) == IF a <= b THEN a ELSE b

T1 == <<"1">>
T1sp == <<"1", " ">>
T2 == <<"2">>
T3 == <<"3">>
T4 == <<"4">>

ObjectKeys == {Str(T1), Str(T1sp), Str(T2), NaN}

NumberKeys == {Str(T1), Str(T2), Str(T3), Str(T4)}

SeqsUpTo(S, n) == UNION {[1..k -> S] : k \in 0..n}

DataFrames ==
    {[dtype |-> "object", key |-> k] : k \in SeqsUpTo(ObjectKeys, MaxRows)}
    \cup {[dtype |-> "int64", key |-> k] : k \in SeqsUpTo(NumberKeys, MaxRows)}

NumRows(df) == Len(df.key)

\* Series.astype(str): a missing value becomes the text 'nan'
AsTypeStr(c) == IF c.null THEN Str(<<"n", "a", "n">>) ELSE c

\* DataMatcher.prepare_matching_fields for the key field: an empty frame is
\* copied as it is; an object column is turned into stripped text; any other
\* column is left alone
PrepareMatchingFields(df) ==
    IF NumRows(df) = 0 THEN df
    ELSE IF df.dtype = "object"
         THEN [df EXCEPT !.key = [i \in 1..NumRows(df) |-> Str(Strip(AsTypeStr(df.key[i]).s))]]
         ELSE df

\* pd.merge(left, right, on=key, how="inner"): one row per pair of rows whose
\* keys are equal (pandas also pairs a missing key with a missing key)
MergeInner(left, right) ==
    {[l |-> i, r |-> j, key |-> left.key[i]] :
        <<i, j>> \in {p \in (1..NumRows(left)) \X (1..NumRows(right)) :
                        left.key[p[1]] = right.key[p[2]]}}

\* pd.merge(left, right, on=key, how="outer"): the inner rows, and one row
\* for every row of either side without a partner; r = 0 (l = 0) says the
\* right (left) side's columns are null in the row
MergeOuter(left, right) ==
    MergeInner(left, right)
    \cup {[l |-> i, r |-> 0, key |-> left.key[i]] :
            i \in {x \in 1..NumRows(left) :
                     \A j \in 1..NumRows(right) : left.key[x] # right.key[j]}}
    \cup {[l |-> 0, r |-> j, key |-> right.key[j]] :
            j \in {y \in 1..NumRows(right) :
                     \A i \in 1..NumRows(left) : left.key[i] # right.key[y]}}

\* DataMatcher.find_exact_matches(df1, df2, [key])
FindExactMatches(a, b) == MergeInner(PrepareMatchingFields(a), PrepareMatchingFields(b))

\* the '_source_files' column after the merge with the second dataset 'f1':
\* the first dataset's column (null in rows it did not contribute, filled
\* with '') followed by ';f1'
SourceFiles(row) == IF row.l # 0 THEN "f0;f1" ELSE ";f1"

\* DataMatcher._exact_matching({'f0': a, 'f1': b}, primary_key=key)
ExactMatching(a, b) ==
    {[l |-> row.l, r |-> row.r, key |-> row.key, source_files |-> SourceFiles(row)] :
        row \in MergeOuter(a, b)}

ExactIdle ==
    /\ df1 = [dtype |-> "object", key |-> <<>>]
    /\ df2 = [dtype |-> "object", key |-> <<>>]
    /\ exact_res = [op |-> "none", rows |-> {}, warnings |-> <<>>, completed |-> FALSE]

ExactInit ==
    /\ df1 \in DataFrames
    /\ df2 \in DataFrames
    /\ df1.dtype = df2.dtype
    /\ exact_res = [op |-> "none", rows |-> {}, warnings |-> <<>>, completed |-> FALSE]

\* the stripped column is assigned in the caller's own frame
CallerFrameAfterPrepareInPlace(df) == PrepareMatchingFields(df)

\* the caller's df after prepare_matching_fields(df, [key]): the function
\* assigns the stripped column in `result = df.copy()`, never in df
CallerFrameAfterPrepare(df) == df

\* a caller's dataset after _exact_matching: '_source_files' is assigned in
\* data[file_key].copy(), never in the dataset of the dict
CallerFrameAfterExactMatching(df, file_key) == df

PrepareMatchingFieldsCall ==
    /\ exact_res.op = "none"
    /\ exact_res' = [op |-> "prepare_matching_fields", prepared |-> PrepareMatchingFields(df1),
                      rows |-> {}, warnings |-> <<>>, completed |-> TRUE]
    /\ df1' = CallerFrameAfterPrepare(df1)
    /\ UNCHANGED df2

FindExactMatchesCall ==
    /\ exact_res.op = "none"
    /\ exact_res' = [op |-> "find_exact_matches", rows |-> FindExactMatches(df1, df2),
                      warnings |-> <<>>, completed |-> TRUE]
    /\ df1' = CallerFrameAfterPrepare(df1)
    /\ df2' = CallerFrameAfterPrepare(df2)

ExactMatchingCall ==
    /\ exact_res.op = "none"
    /\ exact_res' = [op |-> "_exact_matching", rows |-> ExactMatching(df1, df2),
                      warnings |-> <<>>, completed |-> TRUE]
    /\ df1' = CallerFrameAfterExactMatching(df1, "f0")
    /\ df2' = CallerFrameAfterExactMatching(df2, "f1")

\* the merge script: df[join_field].notna().sum() and df[join_field].nunique()
NotnaSum(df) == Cardinality({i \in 1..NumRows(df) : ~df.key[i].null})

NUnique(df) == Cardinality({df.key[i] : i \in {x \in 1..NumRows(df) : ~df.key[x].null}})

\* pd.merge(df1, df2, on=join_field, how=merge_type)
Merge(left, right, how) ==
    CASE how = "inner" -> MergeInner(left, right)
      [] how = "outer" -> MergeOuter(left, right)
      [] how = "left" -> {row \in MergeOuter(left, right) : row.l # 0}
      [] how = "right" -> {row \in MergeOuter(left, right) : row.r # 0}

\* the merge script from the uniqueness check on: the counts are printed,
\* duplicates bring the warning and the question whether to proceed, and
\* the merge follows unless the user declines
CrossMerge(a, b, how, proceed) ==
    LET duplicates == <<NotnaSum(a) - NUnique(a), NotnaSum(b) - NUnique(b)>>
        warned == NotnaSum(a) # NUnique(a) \/ NotnaSum(b) # NUnique(b)
        warnings == IF warned
                    THEN <<[kind |-> "duplicate join field", counts |-> duplicates]>>
                    ELSE <<>>
    IN  IF warned /\ ~proceed
        THEN [op |-> "cross_merge", rows |-> {}, warnings |-> warnings, completed |-> FALSE]
        ELSE [op |-> "cross_merge", rows |-> Merge(a, b, how), warnings |-> warnings,
              completed |-> TRUE]

CrossMergeCall ==
    /\ exact_res.op = "none"
    /\ \E how \in {"left", "right", "inner", "outer"}, proceed \in BOOLEAN :
          exact_res' = CrossMerge(df1, df2, how, proceed)
    /\ UNCHANGED <<df1, df2>>


----------------------------------------------------------------------------
(* fuzz.ratio of fuzzywuzzy, as find_fuzzy_matches uses it: the ratio of   *)
(* difflib's SequenceMatcher, 2*M/T in percent, rounded to an integer.     *)

\* length of the common run of a from i and b from j
RECURSIVE CommonRun(_, _, _, _)
CommonRun(a, b, i, j) ==
    IF i <= Len(a) /\ j <= Len(b) /\ a[i] = b[j]
    THEN 1 + CommonRun(a, b, i + 1, j + 1)
    ELSE 0

\* SequenceMatcher.find_longest_match: the longest common block, the one
\* starting earliest in a, and among those earliest in b
LongestMatch(a, b) ==
    LET P == (1..Len(a)) \X (1..Len(b))
        run == [p \in P |-> CommonRun(a, b, p[1], p[2])]
        size == CHOOSE n \in {run[p] : p \in P} : \A q \in P : run[q] <= n
        longest == {p \in P : run[p] = size}
        i == CHOOSE x \in {p[1] : p \in longest} : \A p \in longest : x <= p[1]
        j == CHOOSE y \in {p[2] : p \in {q \in longest : q[1] = i}} :
                 \A p \in {q \in longest : q[1] = i} : y <= p[2]
    IN  [i |-> i, j |-> j, size |-> size]

\* SequenceMatcher.get_matching_blocks: number of matched characters M
RECURSIVE MatchedChars(_, _)
MatchedChars(a, b) ==
    IF a = <<>> \/ b = <<>> THEN 0
    ELSE LET m == LongestMatch(a, b)
         IN  IF m.size = 0 THEN 0
             ELSE m.size
                  + MatchedChars(SubSeq(a, 1, m.i - 1), SubSeq(b, 1, m.j - 1))
                  + MatchedChars(SubSeq(a, m.i + m.size, Len(a)),
                                 SubSeq(b, m.j + m.size, Len(b)))

\* int(round(num/den)) with Python 3's round-half-to-even
RoundHalfEven(num, den) ==
    LET q == num \div den
        r == num % den
    IN  IF 2 * r < den THEN q
        ELSE IF 2 * r > den THEN q + 1
        ELSE IF q % 2 = 0 THEN q ELSE q + 1

\* fuzz.ratio(s1, s2): 100 for equal texts, 0 when either is empty
Ratio(s1, s2) ==
    IF s1 = s2 THEN 100
    ELSE IF s1 = <<>> \/ s2 = <<>> THEN 0
    ELSE RoundHalfEven(100 * 2 * MatchedChars(s1, s2), Len(s1) + Len(s2))

----------------------------------------------------------------------------
(* find_fuzzy_matches.  A frame is its set of columns and its rows, each   *)
(* row a function from the columns to cells; all columns hold text         *)
(* (dtype object).                                                         *)

MaxLeftRows == 1
MaxRightRows == 2

Ta == <<"a">>
TaSb == <<"a", " ", "b">>
TaSSbS == <<"a", " ", " ", "b", " ">>
Tx == <<"x">>
Ty == <<"y">>

ColumnPool(c) ==
    CASE c = "name" -> {Str(TaSb), Str(TaSSbS), NaN}
      [] c = "city" -> {Str(Tx), Str(Ty)}
      [] OTHER -> {Str(Ta)}

ColumnSets == {{"name"}, {"name", "city"}, {"alias"}}

FuzzyRows(C) == {row \in [C -> UNION {ColumnPool(c) : c \in C}] :
                    \A c \in C : row[c] \in ColumnPool(c)}

FuzzyFrames(n) ==
    UNION {{[cols |-> C, rows |-> r] : r \in SeqsUpTo(FuzzyRows(C), n)} : C \in ColumnSets}

\* the match_fields callers pass, and the thresholds (in percent)
FieldLists == {<<"name">>, <<"name", "city">>}

Thresholds == {0 - 1, 0, 86, 100, 101}

\* available_fields: the requested fields present in both frames, in order
AvailableFields(a, b, match_fields) ==
    SelectSeq(match_fields, LAMBDA f : f \in a.cols /\ f \in b.cols)

InFields(fields, c) == \E k \in 1..Len(fields) : fields[k] = c

\* prepare_matching_fields(df, fields) on a frame of text columns
PrepareFrame(df, fields) ==
    IF Len(df.rows) = 0 \/ df.cols = {} THEN df
    ELSE [df EXCEPT !.rows =
            [i \in 1..Len(df.rows) |->
                [c \in df.cols |->
                    IF InFields(fields, c)
                    THEN Str(Strip(AsTypeStr(df.rows[i][c]).s))
                    ELSE df.rows[i][c]]]]

\* str(value) of a cell
PyStr(c) == AsTypeStr(c).s

\* the texts the frames of the model hold, as supplied and as prepared
ModelTexts ==
    UNION {{PyStr(c), Strip(PyStr(c))} : c \in UNION {ColumnPool(col) : col \in UNION ColumnSets}}

\* fuzz.ratio tabulated over the texts of the model
RatioTable == {<<s1, s2, Ratio(s1, s2)>> : s1 \in ModelTexts, s2 \in ModelTexts}

\* fuzz.ratio(s1, s2), looked up where it is tabulated
FuzzRatio(s1, s2) ==
    IF s1 \in ModelTexts /\ s2 \in ModelTexts
    THEN (CHOOSE t \in RatioTable : t[1] = s1 /\ t[2] = s2)[3]
    ELSE Ratio(s1, s2)

\* sum(scores) of one pair of rows; avg_score is this sum over Len(fields)
RECURSIVE SumScores(_, _, _)
SumScores(row_left, row_right, fields) ==
    IF fields = <<>> THEN 0
    ELSE FuzzRatio(PyStr(row_left[Head(fields)]), PyStr(row_right[Head(fields)]))
         + SumScores(row_left, row_right, Tail(fields))

\* a later row replaces the best one on an equal score too
BetterScoreOnTies(sum, best) == sum >= best

\* `if avg_score > best_score`, both sides times the number of fields
BetterScore(sum, best) == sum > best

\* the inner loop over the right rows from position j on: best is
\* [score, row], row = 0 standing for best_row = None
RECURSIVE BestFrom(_, _, _, _, _)
BestFrom(row_left, right, fields, j, best) ==
    IF j > Len(right.rows) THEN best
    ELSE LET sum == SumScores(row_left, right.rows[j], fields)
         IN  BestFrom(row_left, right, fields, j + 1,
                      IF BetterScore(sum, best.score)
                      THEN [score |-> sum, row |-> j]
                      ELSE best)

\* best_score = -1, best_row = None, then the loop
BestRow(row_left, right, fields) ==
    BestFrom(row_left, right, fields, 1, [score |-> 0 - Len(fields), row |-> 0])

\* a best score equal to the threshold is rejected
AcceptedAboveOnly(best, threshold, nfields) ==
    best.row # 0 /\ best.score > threshold * nfields

\* `if best_row is not None and best_score >= similarity_threshold`
Accepted(best, threshold, nfields) ==
    best.row # 0 /\ best.score >= threshold * nfields

\* the outer loop over the left rows from position i on
RECURSIVE MatchesFrom(_, _, _, _, _)
MatchesFrom(left, right, fields, threshold, i) ==
    IF i > Len(left.rows) THEN <<>>
    ELSE LET best == BestRow(left.rows[i], right, fields)
         IN  (IF Accepted(best, threshold, Len(fields))
              THEN <<[left |-> i, right |-> best.row,
                      similarity_score |-> best.score, nfields |-> Len(fields)]>>
              ELSE <<>>)
             \o MatchesFrom(left, right, fields, threshold, i + 1)

\* DataMatcher.find_fuzzy_matches(df1, df2, match_fields, similarity_threshold)
FindFuzzyMatches(a, b, match_fields, threshold) ==
    LET fields == AvailableFields(a, b, match_fields)
    IN  IF fields = <<>> THEN [status |-> "returned", rows |-> <<>>]
        ELSE IF ~(0 <= threshold /\ threshold <= 100)
             THEN [status |-> "ValueError", rows |-> <<>>]
             ELSE [status |-> "returned",
                   rows |-> MatchesFrom(PrepareFrame(a, fields), PrepareFrame(b, fields),
                                        fields, threshold, 1)]

\* sum(scores) of every pair of rows the call compares, as the loops see it
PairSums(a, b, match_fields) ==
    LET fields == AvailableFields(a, b, match_fields)
        left == PrepareFrame(a, fields)
        right == PrepareFrame(b, fields)
    IN  [i \in 1..Len(a.rows) |->
            [j \in 1..Len(b.rows) |-> SumScores(left.rows[i], right.rows[j], fields)]]

FuzzyIdle ==
    /\ fz_left = [cols |-> {}, rows |-> <<>>]
    /\ fz_right = [cols |-> {}, rows |-> <<>>]
    /\ fz_res = [op |-> "none"]

FuzzyInit ==
    /\ fz_left \in FuzzyFrames(MaxLeftRows)
    /\ fz_right \in FuzzyFrames(MaxRightRows)
    /\ fz_res = [op |-> "none"]

FindFuzzyMatchesCall ==
    /\ fz_res.op = "none"
    /\ \E match_fields \in FieldLists, threshold \in Thresholds :
          fz_res' = [op |-> "find_fuzzy_matches",
                     match_fields |-> match_fields,
                     threshold |-> threshold,
                     sums |-> PairSums(fz_left, fz_right, match_fields),
                     out |-> FindFuzzyMatches(fz_left, fz_right, match_fields, threshold)]
    /\ UNCHANGED <<fz_left, fz_right>>


----------------------------------------------------------------------------
(* DataMatcher as an object: loaded_files, match_results and the           *)
(* validator's history, with add_file, match_and_merge and the strategy    *)
(* methods match_and_merge is built from.                                  *)
(*                                                                         *)
(* A loaded DataFrame is [rows, dtype, notna]: its number of rows, the     *)
(* dtype of its identifier columns, and for every identifier column it     *)
(* has the number of non-null cells, which hold distinct identifiers.      *)
(* Every frame also has payload columns without nulls, so no row is null   *)
(* in all columns.                                                         *)

FrameRows == 5
MaxHistory == 1

None == "None"

\* no dataset: the None that match_results starts with and a failed call
\* leaves to the caller
NoDataset == [matcher |-> "none", key |-> None, projected |-> FALSE]

IdColumns == {"subjid", "patient_id", "id"}

\* frames of FrameRows rows in which at most one identifier column misses
\* one cell, and frames without rows
Frames ==
    {[rows |-> FrameRows, dtype |-> d, notna |-> f] :
        d \in {"object", "float64"},
        f \in {g \in UNION {[C -> {FrameRows - 1, FrameRows}] : C \in SUBSET IdColumns} :
                  Cardinality({c \in DOMAIN g : g[c] < FrameRows}) <= 1}}
    \cup {[rows |-> 0, dtype |-> "object", notna |-> [c \in C |-> 0]] : C \in SUBSET IdColumns}

FileKeys == {"f0", "f1"}

Strategies == {"auto", "exact", "fuzzy", "composite", "bogus"}

PrimaryKeys == {None, "id"}

Columns(df) == DOMAIN df.notna

\* the DataFrames of a dict, in the dict's order
Values(files) == [i \in 1..Len(files) |-> files[i].df]

HasFile(files, k) == \E i \in 1..Len(files) : files[i].key = k

\* DataProcessor.clean_basic_data: no row is empty in all columns, so none
\* is dropped; in an object column astype(str) turns every null into the
\* text 'nan', so no null is left; a numeric column keeps its nulls
CleanBasicData(df) ==
    IF df.dtype = "object"
    THEN [df EXCEPT !.notna = [c \in Columns(df) |-> df.rows]]
    ELSE df

\* DataValidator.validate_dataframe(df, return_details): a DataMatcher's
\* validator has no rules, so the frame is valid; the value returned is the
\* bool unless details are asked for
ValidateDataframe(df, return_details) ==
    IF return_details
    THEN [type |-> "dict", is_valid |-> TRUE]
    ELSE [type |-> "bool", is_valid |-> TRUE]

\* reading the attribute `.is_valid` of a value: a bool has no such
\* attribute and a dict has the key, not the attribute
HasAttrIsValid(v) == v.type \notin {"bool", "dict"}

\* DataMatcher._prepare_data_for_matching: the loop over loaded_files from
\* position i on; history counts the entries validate_dataframe appended
RECURSIVE PrepareFrom(_, _, _, _)
PrepareFrom(files, i, prepared, history) ==
    IF i > Len(files)
    THEN [status |-> "returned", prepared |-> prepared, history |-> history]
    ELSE LET cleaned_df == CleanBasicData(files[i].df)
             validation_result == ValidateDataframe(cleaned_df, FALSE)
         IN  IF ~HasAttrIsValid(validation_result)
             THEN [status |-> "AttributeError", prepared |-> prepared, history |-> history + 1]
             ELSE PrepareFrom(files, i + 1,
                              Append(prepared, [key |-> files[i].key, df |-> cleaned_df]),
                              history + 1)

PrepareDataForMatching(files, history) == PrepareFrom(files, 1, <<>>, history)

\* df[field].notna().mean() as the fraction num/den; den = 0 is the NaN of
\* a frame without rows
NotnaMean(df, field) == [num |-> df.notna[field], den |-> df.rows]

\* x < y on floats: false when either side is NaN
FloatLess(x, y) == x.den # 0 /\ y.den # 0 /\ x.num * y.den < y.num * x.den

\* Python's min(iterable): the first item, replaced by every later item that
\* is less than it
RECURSIVE PyMinFrom(_, _, _)
PyMinFrom(xs, i, m) ==
    IF i > Len(xs) THEN m
    ELSE PyMinFrom(xs, i + 1, IF FloatLess(xs[i], m) THEN xs[i] ELSE m)

PyMin(xs) == PyMinFrom(xs, 2, xs[1])

\* `id_completeness > 0.8`
CompleteEnough(x) == x.den # 0 /\ 10 * x.num > 8 * x.den

common_id_fields == <<"subjid", "patientid", "patient_id", "id">>

FoundInAll(data, field) == \A i \in 1..Len(data) : field \in Columns(data[i])

IdCompleteness(data, field) == PyMin([i \in 1..Len(data) |-> NotnaMean(data[i], field)])

\* DataMatcher._detect_best_strategy(data), data a non-empty list of frames
DetectBestStrategy(data) ==
    IF \E k \in 1..Len(common_id_fields) :
          /\ FoundInAll(data, common_id_fields[k])
          /\ CompleteEnough(IdCompleteness(data, common_id_fields[k]))
    THEN "exact"
    ELSE "composite"

common_keys == <<"subjid", "patientid", "patient_id">>

\* the primary key _exact_matching joins on: the one given, or the first of
\* common_keys that all frames have (None when there is none)
ExactKey(data, primary_key) ==
    IF primary_key # None THEN primary_key
    ELSE IF \E k \in 1..Len(common_keys) : FoundInAll(data, common_keys[k])
         THEN common_keys[CHOOSE k \in 1..Len(common_keys) :
                            /\ FoundInAll(data, common_keys[k])
                            /\ \A m \in 1..(k - 1) : ~FoundInAll(data, common_keys[m])]
         ELSE None

\* DataMatcher._exact_matching(data, primary_key) on two or more frames: the
\* merged dataset is recorded by the matcher that made it and the key
ExactMatchingOn(data, primary_key) ==
    LET key == ExactKey(data, primary_key)
    IN  IF key = None THEN [status |-> "ValueError"]
        ELSE IF ~FoundInAll(data, key) THEN [status |-> "KeyError"]
        ELSE [status |-> "returned",
              dataset |-> [matcher |-> "exact", key |-> key, projected |-> FALSE]]

FuzzyMatching(data) == [status |-> "NotImplementedError"]

CompositeMatching(data) == [status |-> "NotImplementedError"]

\* a dispatcher that falls back to exact matching for the strategies that
\* are not implemented
ExecuteWithExactFallback(data, strategy, primary_key) ==
    IF strategy \in {"exact", "fuzzy", "composite"} THEN ExactMatchingOn(data, primary_key)
    ELSE [status |-> "ValueError"]

\* DataMatcher._execute_matching_strategy(data, strategy, primary_key)
ExecuteMatchingStrategy(data, strategy, primary_key) ==
    IF strategy = "exact" THEN ExactMatchingOn(data, primary_key)
    ELSE IF strategy = "fuzzy" THEN FuzzyMatching(data)
    ELSE IF strategy = "composite" THEN CompositeMatching(data)
    ELSE [status |-> "ValueError"]

\* the methods class QualityAssessment defines
QualityAssessmentMethods ==
    {"assess_completeness", "assess_consistency", "assess_uniqueness", "assess_accuracy",
     "assess_timeliness", "generate_overall_assessment", "_get_quality_grade",
     "generate_quality_report"}

\* self.quality_controller.assess_match_quality(matched_data)
AssessMatchQuality(matched_data) ==
    IF "assess_match_quality" \in QualityAssessmentMethods
    THEN [status |-> "returned"]
    ELSE [status |-> "AttributeError"]

\* DataMatcher._apply_field_configuration(data)
ApplyFieldConfiguration(data) == [data EXCEPT !.projected = TRUE]

\* the exception of a failed stage is swallowed and the data at hand is
\* handed to the caller as the result
FailureExposingPartial(stages, error, history) ==
    [status |-> "returned", error |-> error, stages |-> Append(stages, "Failed"),
     final_data |-> [matcher |-> "partial", key |-> None, projected |-> FALSE],
     history |-> history]

\* an exception raised in a stage: logged and re-raised by match_and_merge
Failure(stages, error, history) ==
    [status |-> "raised", error |-> error, stages |-> Append(stages, "Failed"),
     final_data |-> NoDataset, history |-> history]

\* DataMatcher.match_and_merge(strategy, primary_key, output_path) from the
\* end of preparation on; saved is the outcome of _save_results
AfterPreparing(prep, strategy, primary_key, output_path, saved) ==
    LET data == Values(prep.prepared)
        chosen == IF strategy = "auto" THEN DetectBestStrategy(data) ELSE strategy
        matched == ExecuteMatchingStrategy(data, chosen, primary_key)
        s3 == <<"Preparing", "StrategySelection", "Matching">>
        s4 == Append(s3, "QualityScoring")
        s5 == Append(s4, "FieldProjection")
    IN  IF matched.status # "returned" THEN Failure(s3, matched.status, prep.history)
        ELSE IF AssessMatchQuality(matched.dataset).status # "returned"
             THEN Failure(s4, AssessMatchQuality(matched.dataset).status, prep.history)
        ELSE IF output_path # None /\ ~saved
             THEN Failure(Append(s5, "Saving"), "OSError", prep.history)
        ELSE [status |-> "returned", error |-> None,
              stages |-> (IF output_path # None THEN Append(s5, "Saving") ELSE s5) \o <<"Done">>,
              final_data |-> ApplyFieldConfiguration(matched.dataset),
              history |-> prep.history]

\* the guard on the number of loaded files lets a single file through
MatchAndMergeOneFileEnough(files, history, strategy, primary_key, output_path, saved) ==
    IF Len(files) < 1 THEN [status |-> "raised", error |-> "ValueError", stages |-> <<"Failed">>,
                            final_data |-> NoDataset, history |-> history]
    ELSE LET prep == PrepareDataForMatching(files, history)
         IN  IF prep.status # "returned"
             THEN Failure(<<"Preparing">>, prep.status, prep.history)
             ELSE AfterPreparing(prep, strategy, primary_key, output_path, saved)

\* DataMatcher.match_and_merge(strategy, primary_key, output_path)
MatchAndMerge(files, history, strategy, primary_key, output_path, saved) ==
    IF Len(files) < 2 THEN [status |-> "raised", error |-> "ValueError", stages |-> <<"Failed">>,
                            final_data |-> NoDataset, history |-> history]
    ELSE LET prep == PrepareDataForMatching(files, history)
         IN  IF prep.status # "returned"
             THEN Failure(<<"Preparing">>, prep.status, prep.history)
             ELSE AfterPreparing(prep, strategy, primary_key, output_path, saved)

MergeIdle ==
    /\ loaded_files = <<>>
    /\ match_results = NoDataset
    /\ validation_history = 0
    /\ call = [op |-> "none"]

MergeInit == MergeIdle

\* DataMatcher.add_file(file_path, file_key): the file is read and stored
\* under file_key, "a unique identifier for this file"
AddFile ==
    /\ \E k \in FileKeys, df \in Frames :
          /\ ~HasFile(loaded_files, k)
          /\ loaded_files' = Append(loaded_files, [key |-> k, df |-> df])
    /\ call' = [op |-> "add_file"]
    /\ UNCHANGED <<match_results, validation_history>>

MatchAndMergeCall ==
    /\ validation_history < MaxHistory
    /\ \E strategy \in Strategies, primary_key \in PrimaryKeys,
          output_path \in {None, "out.xlsx"}, saved \in BOOLEAN :
          /\ (output_path = None) => saved
          /\ LET r == MatchAndMerge(loaded_files, validation_history, strategy,
                                    primary_key, output_path, saved)
             IN  /\ call' = [op |-> "match_and_merge", strategy |-> strategy,
                             primary_key |-> primary_key, status |-> r.status,
                             error |-> r.error, stages |-> r.stages,
                             returned |-> r.final_data, files |-> Len(loaded_files)]
                 /\ match_results' = IF r.status = "returned" THEN r.final_data
                                                              ELSE match_results
                 /\ validation_history' = r.history
    /\ UNCHANGED loaded_files

\* _detect_best_strategy applied to the frames just loaded (the method
\* reads its argument only)
DetectBestStrategyCall ==
    /\ Len(loaded_files) >= 2
    /\ call.op = "add_file"
    /\ call' = [op |-> "_detect_best_strategy",
                returned |-> DetectBestStrategy(Values(loaded_files))]
    /\ UNCHANGED <<loaded_files, match_results, validation_history>>

\* _execute_matching_strategy applied to the frames just loaded (the
\* method reads its arguments only)
ExecuteMatchingStrategyCall ==
    /\ Len(loaded_files) >= 2
    /\ call.op = "add_file"
    /\ \E strategy \in Strategies \ {"auto"}, primary_key \in PrimaryKeys :
          call' = [op |-> "_execute_matching_strategy", strategy |-> strategy,
                   primary_key |-> primary_key,
                   out |-> ExecuteMatchingStrategy(Values(loaded_files), strategy, primary_key)]
    /\ UNCHANGED <<loaded_files, match_results, validation_history>>

----------------------------------------------------------------------------
(* QualityAssessment (src/mdip/core/quality_control.py).  A dataset is     *)
(* [schema, rows]: schema a sequence of [name, dtype], rows a sequence of  *)
(* tuples of cells.  A cell is [null, inf, n, s]: a missing value, the     *)
(* float inf, a number (for a datetime64 column the day of the date) or a  *)
(* text; list marks a cell holding a Python list (a value that cannot be   *)
(* hashed), s being its str().  A score is the exact fraction [num, den]   *)
(* of the float the code computes.                                         *)

MaxQRows == 3
MaxNumericRows == 11
ScoreMargin == 5
MaxAssessments == 2

RECURSIVE GCD(_, _)
GCD(a, b) == IF b = 0 THEN a ELSE GCD(b, a % b)

Abs(x) == IF x < 0 THEN 0 - x ELSE x

\* the fraction n/d (d > 0) in lowest terms
Frac(n, d) == LET g == GCD(Abs(n), d) IN [num |-> n \div g, den |-> d \div g]

FracEq(x, y) == x.num * y.den = y.num * x.den

FracLe(x, y) == x.num * y.den <= y.num * x.den

FracAdd(x, y) == Frac(x.num * y.den + y.num * x.den, x.den * y.den)

\* 1 - x
FracComplement(x) == Frac(x.den - x.num, x.den)

QNull == [null |-> TRUE, inf |-> FALSE, n |-> 0, s |-> <<>>, list |-> FALSE]
QInf == [null |-> FALSE, inf |-> TRUE, n |-> 0, s |-> <<>>, list |-> FALSE]
QNum(n) == [null |-> FALSE, inf |-> FALSE, n |-> n, s |-> <<>>, list |-> FALSE]
QText(s) == [null |-> FALSE, inf |-> FALSE, n |-> 0, s |-> s, list |-> FALSE]

\* the empty list [] as a cell of an object column; str([]) is '[]'
QList == [null |-> FALSE, inf |-> FALSE, n |-> 0, s |-> <<"[", "]">>, list |-> TRUE]

NumCols(df) == Len(df.schema)

\* len(df)
TotalRows(df) == Len(df.rows)

\* df[col] for the column at position k
Column(df, k) == [i \in 1..TotalRows(df) |-> df.rows[i][k]]

\* series.isna().sum()
NullCount(cells) == Cardinality({i \in 1..Len(cells) : cells[i].null})

\* series.notna().sum()
NonNullCount(cells) == Cardinality({i \in 1..Len(cells) : ~cells[i].null})

RECURSIVE SumOver(_, _)
SumOver(f, S) ==
    IF S = {} THEN 0
    ELSE LET x == CHOOSE y \in S : TRUE IN f[x] + SumOver(f, S \ {x})

\* a score on a boundary gets the lower grade
GetQualityGradeAbove(score) ==
    IF ~FracLe(score, Frac(9, 10)) THEN "A"
    ELSE IF ~FracLe(score, Frac(8, 10)) THEN "B"
    ELSE IF ~FracLe(score, Frac(7, 10)) THEN "C"
    ELSE IF ~FracLe(score, Frac(6, 10)) THEN "D"
    ELSE "F"

\* QualityAssessment._get_quality_grade(score)
GetQualityGrade(score) ==
    IF FracLe(Frac(9, 10), score) THEN "A"
    ELSE IF FracLe(Frac(8, 10), score) THEN "B"
    ELSE IF FracLe(Frac(7, 10), score) THEN "C"
    ELSE IF FracLe(Frac(6, 10), score) THEN "D"
    ELSE "F"

\* QualityAssessment.assess_completeness(df): the overall and the
\* field-level results (the critical, important and row-level figures are
\* left out)
AssessCompleteness(df) ==
    IF TotalRows(df) = 0
    THEN [overall_completeness |-> Frac(0, 1), field_completeness |-> <<>>]
    ELSE [overall_completeness |->
              IF TotalRows(df) * NumCols(df) > 0
              THEN Frac(SumOver([k \in 1..NumCols(df) |-> NonNullCount(Column(df, k))],
                                1..NumCols(df)),
                        TotalRows(df) * NumCols(df))
              ELSE Frac(0, 1),
          field_completeness |->
              [k \in 1..NumCols(df) |->
                  LET non_null_count == NonNullCount(Column(df, k))
                      completeness_rate == Frac(non_null_count, TotalRows(df))
                  IN  [rate |-> completeness_rate,
                       missing_count |-> TotalRows(df) - non_null_count,
                       quality_grade |-> GetQualityGrade(completeness_rate)]]]

Digits == {"0", "1", "2", "3", "4", "5", "6", "7", "8", "9"}

\* the length of the run of digits at the start of s
RECURSIVE DigitRun(_)
DigitRun(s) == IF s # <<>> /\ Head(s) \in Digits THEN 1 + DigitRun(Tail(s)) ELSE 0

\* str.match(r'^\d+\.?\d*$')
IsNumericPattern(s) ==
    LET d == DigitRun(s)
        rest == SubSeq(s, d + 1, Len(s))
    IN  /\ d >= 1
        /\ \/ rest = <<>>
           \/ Head(rest) = "." /\ DigitRun(Tail(rest)) = Len(Tail(rest))

RECURSIVE FracSum(_)
FracSum(scores) ==
    IF scores = <<>> THEN Frac(0, 1) ELSE FracAdd(Head(scores), FracSum(Tail(scores)))

\* np.mean(scores) of a non-empty list
FracMean(scores) ==
    LET total == FracSum(scores) IN Frac(total.num, total.den * Len(scores))

\* the positions of the columns of a dtype that hold a non-null value
ScoredColumns(df, dtype) ==
    SelectSeq([k \in 1..NumCols(df) |-> k],
              LAMBDA k : df.schema[k].dtype = dtype /\ NonNullCount(Column(df, k)) > 0)

\* QualityAssessment.assess_consistency(df)
AssessConsistency(df) ==
    LET object_cols == ScoredColumns(df, "object")
        date_cols == ScoredColumns(df, "datetime64")
        data_type_consistency ==
            [x \in 1..Len(object_cols) |->
                LET cells == Column(df, object_cols[x])
                IN  Frac(Cardinality({i \in 1..Len(cells) :
                                        ~cells[i].null /\ IsNumericPattern(cells[i].s)}),
                         NonNullCount(cells))]
        format_consistency == [x \in 1..Len(date_cols) |-> Frac(1, 1)]
        all_scores == data_type_consistency \o format_consistency
    IN  [overall_consistency_score |->
            IF all_scores # <<>> THEN FracMean(all_scores) ELSE Frac(0, 1)]

\* QualityAssessment.assess_uniqueness(df): df.duplicated() marks every row
\* that equals an earlier row (the field-level figures are left out)
AssessUniqueness(df) ==
    IF TotalRows(df) = 0
    THEN [duplicate_rows |-> 0, duplicate_rate |-> Frac(0, 1), uniqueness_score |-> Frac(0, 1)]
    ELSE LET duplicate_rows ==
                 Cardinality({i \in 1..TotalRows(df) :
                                \E j \in 1..(i - 1) : df.rows[j] = df.rows[i]})
             duplicate_rate == Frac(duplicate_rows, TotalRows(df))
         IN  [duplicate_rows |-> duplicate_rows,
              duplicate_rate |-> duplicate_rate,
              uniqueness_score |-> FracComplement(duplicate_rate)]

\* df.duplicated() hashes the values of every row: with at least one row
\* and a list in a cell it raises TypeError (unhashable type)
UniquenessRaises(df) ==
    /\ TotalRows(df) > 0
    /\ \E i \in 1..TotalRows(df), k \in 1..NumCols(df) : df.rows[i][k].list

\* the order of floats, inf above every number
CellLess(a, b) == ~a.inf /\ (b.inf \/ a.n < b.n)

\* the k-th smallest (k from 0) of a sequence of non-null cells
Sorted(cells, k) ==
    cells[CHOOSE i \in 1..Len(cells) :
            Cardinality({j \in 1..Len(cells) :
                           CellLess(cells[j], cells[i])
                           \/ (~CellLess(cells[i], cells[j]) /\ j < i)}) = k]

\* Series.quantile(q) for q = quarters/4, by linear interpolation, as
\* [finite, value times 4]
Quantile(cells, quarters) ==
    LET h == (Len(cells) - 1) * quarters
        lo == Sorted(cells, h \div 4)
        hi == Sorted(cells, IF h % 4 = 0 THEN h \div 4 ELSE h \div 4 + 1)
    IN  [finite |-> ~lo.inf /\ ~hi.inf,
         times4 |-> 4 * lo.n + (h % 4) * (hi.n - lo.n)]

\* the values outside [Q1 - 3 IQR, Q3 + 3 IQR]; with an infinite or
\* undefined bound no comparison holds
ExtremeOutliers(cells) ==
    LET Q1 == Quantile(cells, 1)
        Q3 == Quantile(cells, 3)
        IQR == Q3.times4 - Q1.times4
    IN  IF ~(Q1.finite /\ Q3.finite) THEN 0
        ELSE Cardinality({i \in 1..Len(cells) :
                            /\ ~cells[i].inf
                            /\ \/ 4 * cells[i].n < Q1.times4 - 3 * IQR
                               \/ 4 * cells[i].n > Q3.times4 + 3 * IQR})
             + Cardinality({i \in 1..Len(cells) : cells[i].inf})

\* series.dropna()
DropNa(cells) == SelectSeq(cells, LAMBDA c : ~c.null)

\* the body of the loop of assess_accuracy for one column: the counts of
\* the issues found and the invalid_count they add up to
FieldAccuracy(dtype, cells) ==
    LET non_null_values == DropNa(cells)
        n == Len(non_null_values)
        numeric == dtype = "float64" /\ n > 0
        text == dtype = "object" /\ n > 0
        inf_count == IF numeric THEN Cardinality({i \in 1..n : non_null_values[i].inf}) ELSE 0
        outliers == IF numeric /\ n > 10 THEN ExtremeOutliers(non_null_values) ELSE 0
        whitespace_issues ==
            IF text
            THEN Cardinality({i \in 1..n : non_null_values[i].s # Strip(non_null_values[i].s)})
            ELSE 0
        empty_strings ==
            IF text THEN Cardinality({i \in 1..n : Strip(non_null_values[i].s) = <<>>}) ELSE 0
    IN  [invalid_count |-> inf_count + empty_strings,
         total_count |-> n, inf_count |-> inf_count, outliers |-> outliers,
         whitespace_issues |-> whitespace_issues, empty_strings |-> empty_strings]

\* a dataset without a value to judge counts as fully accurate
AssessAccuracyVacuouslyAccurate(df) ==
    LET field_accuracy ==
            [k \in 1..NumCols(df) |-> FieldAccuracy(df.schema[k].dtype, Column(df, k))]
        total_values == SumOver([k \in 1..NumCols(df) |-> field_accuracy[k].total_count],
                                1..NumCols(df))
        invalid_values == SumOver([k \in 1..NumCols(df) |-> field_accuracy[k].invalid_count],
                                  1..NumCols(df))
    IN  [field_accuracy |-> field_accuracy,
         total_value_count |-> total_values,
         invalid_value_count |-> invalid_values,
         overall_accuracy_score |->
             IF total_values > 0 THEN FracComplement(Frac(invalid_values, total_values))
             ELSE Frac(1, 1)]

\* QualityAssessment.assess_accuracy(df)
AssessAccuracy(df) ==
    LET field_accuracy ==
            [k \in 1..NumCols(df) |-> FieldAccuracy(df.schema[k].dtype, Column(df, k))]
        total_values == SumOver([k \in 1..NumCols(df) |-> field_accuracy[k].total_count],
                                1..NumCols(df))
        invalid_values == SumOver([k \in 1..NumCols(df) |-> field_accuracy[k].invalid_count],
                                  1..NumCols(df))
    IN  [field_accuracy |-> field_accuracy,
         total_value_count |-> total_values,
         invalid_value_count |-> invalid_values,
         overall_accuracy_score |->
             IF total_values > 0 THEN FracComplement(Frac(invalid_values, total_values))
             ELSE Frac(0, 1)]

\* the names of the model's columns that contain 'date' or 'time'
DateLikeNames == {"visit_date"}

\* the column labels that are int objects (as read with header=None),
\* written by their repr
IntegerLabels == {"0"}

\* without date_fields the detection loop calls col.lower() on the label of
\* every column that has no datetime dtype: an int label raises
\* AttributeError
TimelinessRaises(df, date_fields) ==
    /\ date_fields = <<>>
    /\ \E k \in 1..NumCols(df) :
          df.schema[k].dtype # "datetime64" /\ df.schema[k].name \in IntegerLabels

\* the date fields assess_timeliness looks at: the ones given, or the
\* columns of a datetime dtype or with a date-like name
DateFields(df, date_fields) ==
    IF date_fields # <<>> THEN date_fields
    ELSE LET found == SelectSeq([k \in 1..NumCols(df) |-> k],
                                LAMBDA k : \/ df.schema[k].dtype = "datetime64"
                                           \/ df.schema[k].name \in DateLikeNames)
         IN  [x \in 1..Len(found) |-> df.schema[found[x]].name]

HasColumn(df, field) == \E k \in 1..NumCols(df) : df.schema[k].name = field

ColumnNamed(df, field) == Column(df, CHOOSE k \in 1..NumCols(df) : df.schema[k].name = field)

Max(S) == CHOOSE x \in S : \A y \in S : y <= x

\* the timeliness score of one date field, << >> when none is appended:
\* 1 - mean(age_days / max_age) when max_age > 0
FieldTimeliness(cells, reference_date) ==
    LET date_series == DropNa(cells)
        n == Len(date_series)
        age_days == [i \in 1..n |-> reference_date - date_series[i].n]
        max_age == Max({age_days[i] : i \in 1..n})
    IN  IF n = 0 THEN <<>>
        ELSE IF max_age > 0
             THEN <<FracComplement(Frac(SumOver(age_days, 1..n), n * max_age))>>
             ELSE <<>>

RECURSIVE TimelinessScores(_, _, _)
TimelinessScores(df, fields, reference_date) ==
    IF fields = <<>> THEN <<>>
    ELSE (IF HasColumn(df, Head(fields))
          THEN FieldTimeliness(ColumnNamed(df, Head(fields)), reference_date)
          ELSE <<>>)
         \o TimelinessScores(df, Tail(fields), reference_date)

\* QualityAssessment.assess_timeliness(df, date_fields, reference_date);
\* date_fields = << >> stands for None
AssessTimeliness(df, date_fields, reference_date) ==
    LET timeliness_scores ==
            TimelinessScores(df, DateFields(df, date_fields), reference_date)
    IN  [timeliness_score |->
            IF timeliness_scores # <<>> THEN FracMean(timeliness_scores) ELSE Frac(0, 1)]

\* weight times score
Weighted(percent, score) == Frac(percent * score.num, 100 * score.den)

\* uniqueness weighs as much as completeness
DimensionScoresUniquenessHeavy(completeness, consistency, uniqueness, accuracy, timeliness) ==
    <<Weighted(25, completeness), Weighted(20, consistency), Weighted(25, uniqueness),
      Weighted(25, accuracy), Weighted(10, timeliness)>>

\* dimension_scores of generate_overall_assessment
DimensionScores(completeness, consistency, uniqueness, accuracy, timeliness) ==
    <<Weighted(25, completeness), Weighted(20, consistency), Weighted(20, uniqueness),
      Weighted(25, accuracy), Weighted(10, timeliness)>>

\* QualityAssessment.generate_overall_assessment(df, date_fields=...): now
\* is the clock assess_timeliness reads for its reference date
GenerateOverallAssessment(df, date_fields, now) ==
    LET completeness == AssessCompleteness(df)
        consistency == AssessConsistency(df)
        uniqueness == AssessUniqueness(df)
        accuracy == AssessAccuracy(df)
        timeliness == AssessTimeliness(df, date_fields, now)
    IN  [completeness |-> completeness.overall_completeness,
         consistency |-> consistency.overall_consistency_score,
         uniqueness |-> uniqueness.uniqueness_score,
         accuracy |-> accuracy.overall_accuracy_score,
         timeliness |-> timeliness.timeliness_score,
         overall_score |->
             FracSum(DimensionScores(completeness.overall_completeness,
                                     consistency.overall_consistency_score,
                                     uniqueness.uniqueness_score,
                                     accuracy.overall_accuracy_score,
                                     timeliness.timeliness_score))]

\* the assessor of generate_overall_assessment whose exception ends the
\* call (they run in the order completeness, consistency, uniqueness,
\* accuracy, timeliness and nothing catches), "none" when all five return
FailedAssessor(df, date_fields) ==
    IF UniquenessRaises(df) THEN "uniqueness"
    ELSE IF TimelinessRaises(df, date_fields) THEN "timeliness"
    ELSE "none"

\* the entry generate_overall_assessment appends; the timestamp is read
\* from the clock on the day the reference date was read
HistoryEntry(df, metrics, now) ==
    [timestamp |-> now,
     dataframe_shape |-> <<TotalRows(df), NumCols(df)>>,
     quality_metrics |-> metrics,
     overall_score |-> metrics.overall_score]

\* the entry is appended although an assessor raised
HistoryAfterAppendingFirst(history, df, date_fields, now) ==
    Append(history, HistoryEntry(df, [overall_score |-> Frac(0, 1)], now))

\* the newest entry takes the place of the last one
HistoryAfterReplacingLast(history, df, date_fields, now) ==
    IF FailedAssessor(df, date_fields) # "none" THEN history
    ELSE LET entry == HistoryEntry(df, GenerateOverallAssessment(df, date_fields, now), now)
         IN  IF history = <<>> THEN <<entry>>
             ELSE [history EXCEPT ![Len(history)] = entry]

\* self.assessment_history after generate_overall_assessment(df,
\* date_fields=date_fields): the append comes after the five assessors
HistoryAfter(history, df, date_fields, now) ==
    IF FailedAssessor(df, date_fields) # "none" THEN history
    ELSE Append(history,
                HistoryEntry(df, GenerateOverallAssessment(df, date_fields, now), now))

\* generate_quality_report(metrics): the grade shown and the findings added
GenerateQualityReport(metrics) ==
    [grade |-> GetQualityGrade(metrics.overall_score),
     low_completeness |-> ~FracLe(Frac(8, 10), metrics.completeness),
     accuracy_issues |-> ~FracLe(Frac(9, 10), metrics.accuracy)]

\* the datasets handed to the assessors
NameColumn == [name |-> "name", dtype |-> "object"]
DateColumn == [name |-> "visit_date", dtype |-> "datetime64"]
ValueColumn == [name |-> "value", dtype |-> "float64"]

Schemas == {<<NameColumn>>, <<DateColumn>>, <<ValueColumn>>, <<NameColumn, DateColumn>>}

T7 == <<"7">>
TSpace == <<" ">>
TP == <<"P">>
TPsp == <<"P", " ">>

CellPool(dtype) ==
    CASE dtype = "object" -> {QText(T7), QText(TSpace), QNull}
      [] dtype = "datetime64" -> {QNum(1), QNum(9), QNull}
      [] dtype = "float64" -> {QNum(1), QInf, QNull}

\* reference dates, as days on the scale of the dates of the pool
ReferenceDays == {2, 5}

DateFieldHints == {<<>>, <<"visit_date">>, <<"missing">>}

RowsOf(schema) ==
    {r \in [1..Len(schema) -> UNION {CellPool(schema[k].dtype) : k \in 1..Len(schema)}] :
        \A k \in 1..Len(schema) : r[k] \in CellPool(schema[k].dtype)}

SmallFrames ==
    UNION {{[schema |-> S, rows |-> r] : r \in SeqsUpTo(RowsOf(S), MaxQRows)} : S \in Schemas}

\* a name column and a numeric column of n values: 1, 2, ... and a last
\* value that may be an extreme outlier or inf; the first name may be padded
NumericFrame(n, last, first_name) ==
    [schema |-> <<NameColumn, ValueColumn>>,
     rows |-> [i \in 1..n |-> <<IF i = 1 THEN first_name ELSE QText(TP),
                                IF i = n THEN last ELSE QNum(i)>>]]

NumericFrames ==
    {NumericFrame(n, last, first_name) :
        n \in {MaxNumericRows - 1, MaxNumericRows},
        last \in {QNum(10), QNum(999999), QInf},
        first_name \in {QText(TP), QText(TPsp)}}

\* Scenario B: 100 rows, 10 nulls in one column and none elsewhere
ScenarioB ==
    [schema |-> <<NameColumn, ValueColumn>>,
     rows |-> [i \in 1..100 |-> <<QText(TP), IF i <= 10 THEN QNull ELSE QNum(i)>>]]

\* Scenario D: 10 rows, one of them repeated once
ScenarioD ==
    [schema |-> <<ValueColumn>>,
     rows |-> [i \in 1..10 |-> <<QNum(IF i = 10 THEN 1 ELSE i)>>]]

\* Scenario E: a numeric column with the values 10, 12, 11, 13, 999999
ScenarioE ==
    [schema |-> <<ValueColumn>>,
     rows |-> <<<<QNum(10)>>, <<QNum(12)>>, <<QNum(11)>>, <<QNum(13)>>, <<QNum(999999)>>>>]

\* pd.DataFrame(): no rows and no columns
EmptyFrame == [schema |-> <<>>, rows |-> <<>>]

\* datasets of the history runs: dates on both sides of the reference
\* dates, a column labelled with the int 0, a list in a cell, both
IntLabelColumn == [name |-> "0", dtype |-> "float64"]

DatedFrame == [schema |-> <<DateColumn>>, rows |-> <<<<QNum(1)>>, <<QNum(9)>>>>]

IntLabelFrame == [schema |-> <<IntLabelColumn>>, rows |-> <<<<QNum(1)>>>>]

ListCellFrame == [schema |-> <<NameColumn>>, rows |-> <<<<QList>>>>]

ListCellIntLabelFrame ==
    [schema |-> <<NameColumn, IntLabelColumn>>, rows |-> <<<<QList, QNum(1)>>>>]

HistoryFrames == {EmptyFrame, DatedFrame, IntLabelFrame, ListCellFrame, ListCellIntLabelFrame}

QualityFrames == SmallFrames \cup NumericFrames \cup {ScenarioB, ScenarioD, ScenarioE, EmptyFrame}

Scores == {Frac(k, 100) : k \in (0 - ScoreMargin)..(100 + ScoreMargin)}

QualityIdle ==
    /\ q_df = [schema |-> <<>>, rows |-> <<>>]
    /\ q_res = [op |-> "none"]
    /\ assessment_history = <<>>
    /\ assessments_returned = 0

QualityInit ==
    /\ q_df \in QualityFrames
    /\ q_res = [op |-> "none"]
    /\ assessment_history = <<>>
    /\ assessments_returned = 0

HistoryInit ==
    /\ q_df \in HistoryFrames
    /\ q_res = [op |-> "none"]
    /\ assessment_history = <<>>
    /\ assessments_returned = 0

\* the result of a call that raised
NoResult == [raised |-> TRUE]

AssessCompletenessCall ==
    /\ q_res.op = "none"
    /\ q_res' = [op |-> "assess_completeness", raised |-> "none",
                 out |-> AssessCompleteness(q_df)]
    /\ UNCHANGED <<q_df, assessment_history, assessments_returned>>

AssessConsistencyCall ==
    /\ q_res.op = "none"
    /\ q_res' = [op |-> "assess_consistency", raised |-> "none",
                 out |-> AssessConsistency(q_df)]
    /\ UNCHANGED <<q_df, assessment_history, assessments_returned>>

AssessUniquenessCall ==
    /\ q_res.op = "none"
    /\ q_res' = IF UniquenessRaises(q_df)
                THEN [op |-> "assess_uniqueness", raised |-> "TypeError", out |-> NoResult]
                ELSE [op |-> "assess_uniqueness", raised |-> "none",
                      out |-> AssessUniqueness(q_df)]
    /\ UNCHANGED <<q_df, assessment_history, assessments_returned>>

AssessAccuracyCall ==
    /\ q_res.op = "none"
    /\ q_res' = [op |-> "assess_accuracy", raised |-> "none", out |-> AssessAccuracy(q_df)]
    /\ UNCHANGED <<q_df, assessment_history, assessments_returned>>

AssessTimelinessCall ==
    /\ q_res.op = "none"
    /\ \E date_fields \in DateFieldHints, reference_date \in ReferenceDays :
          q_res' = [op |-> "assess_timeliness", date_fields |-> date_fields,
                    reference_date |-> reference_date,
                    raised |-> IF TimelinessRaises(q_df, date_fields)
                               THEN "AttributeError" ELSE "none",
                    out |-> IF TimelinessRaises(q_df, date_fields) THEN NoResult
                            ELSE AssessTimeliness(q_df, date_fields, reference_date)]
    /\ UNCHANGED <<q_df, assessment_history, assessments_returned>>

GenerateOverallAssessmentCall ==
    /\ q_res.op = "none"
    /\ Len(assessment_history) < MaxAssessments
    /\ \E date_fields \in DateFieldHints, now \in ReferenceDays :
          /\ q_res' = [op |-> "generate_overall_assessment", date_fields |-> date_fields,
                       reference_date |-> now,
                       raised |-> FailedAssessor(q_df, date_fields),
                       out |-> IF FailedAssessor(q_df, date_fields) # "none" THEN NoResult
                               ELSE GenerateOverallAssessment(q_df, date_fields, now)]
          /\ assessment_history' = HistoryAfter(assessment_history, q_df, date_fields, now)
          /\ assessments_returned' =
                 IF FailedAssessor(q_df, date_fields) # "none" THEN assessments_returned
                 ELSE assessments_returned + 1
    /\ UNCHANGED q_df

\* generate_quality_report on the metrics the last assessment returned
GenerateQualityReportCall ==
    /\ q_res.op = "generate_overall_assessment"
    /\ q_res.raised = "none"
    /\ q_res' = [op |-> "generate_quality_report", raised |-> "none",
                 out |-> GenerateQualityReport(q_res.out)]
    /\ UNCHANGED <<q_df, assessment_history, assessments_returned>>

\* the caller takes the result and comes back with a dataset
NextDataset ==
    /\ q_res.op # "none"
    /\ q_res' = [op |-> "none"]
    /\ q_df' \in HistoryFrames
    /\ UNCHANGED <<assessment_history, assessments_returned>>

GetQualityGradeCall ==
    /\ q_res.op = "none"
    /\ \E score \in Scores :
          q_res' = [op |-> "_get_quality_grade", score |-> score,
                    out |-> GetQualityGrade(score)]
    /\ UNCHANGED <<q_df, assessment_history, assessments_returned>>

----------------------------------------------------------------------------
(* DataMatcher.calculate_match_confidence (src/mdip/core/matcher.py) and   *)
(* the rules of MatchConfig (src/mdip/config/match_config.py).  A record   *)
(* is a function from the field names it holds to values; a value is       *)
(* [none, s]: None, or a str.                                              *)

MaxMatchFields == 2

PyNone == [none |-> TRUE, s |-> <<>>]

PyText(s) == [none |-> FALSE, s |-> s]

\* str(record[field]).strip() if record[field] is not None else ""
ValueText(value) == IF value.none THEN <<>> ELSE Strip(value.s)

\* the fraction of equal fields counts the fields that differ
CalculateMatchConfidenceOfMismatches(r1, r2, fields) ==
    LET valid_fields == SelectSeq(fields, LAMBDA f : f \in DOMAIN r1 /\ f \in DOMAIN r2)
        matched == Cardinality({i \in 1..Len(valid_fields) :
                      ValueText(r1[valid_fields[i]]) # ValueText(r2[valid_fields[i]])})
    IN  IF valid_fields = <<>> THEN Frac(0, 1) ELSE Frac(matched, Len(valid_fields))

\* DataMatcher.calculate_match_confidence(record1, record2, match_fields)
CalculateMatchConfidence(r1, r2, fields) ==
    LET valid_fields == SelectSeq(fields, LAMBDA f : f \in DOMAIN r1 /\ f \in DOMAIN r2)
        matched == Cardinality({i \in 1..Len(valid_fields) :
                      ValueText(r1[valid_fields[i]]) = ValueText(r2[valid_fields[i]])})
    IN  IF valid_fields = <<>> THEN Frac(0, 1) ELSE Frac(matched, Len(valid_fields))

\* MatchConfig.create_composite_match_config(field_weights).matching_rules,
\* weights and thresholds in hundredths
CreateCompositeMatchConfig(field_weights) ==
    [f \in DOMAIN field_weights |->
        [field_name |-> f, weight |-> field_weights[f], threshold |-> 80,
         is_required |-> field_weights[f] >= 100]]

RecordFields == {"id", "name"}

ListedFields == {"id", "name", "age"}

RecordValues == {PyNone, PyText(<<"a">>), PyText(<<"a", " ">>), PyText(<<"b">>), PyText(<<" ">>)}

Records == UNION {[S -> RecordValues] : S \in SUBSET RecordFields}

\* MatchConfig(): no rules; or the rules made from weights 0.5 or 1.0 for
\* both fields
FieldWeights == {<<>>} \cup [RecordFields -> {50, 100}]

ConfIdle ==
    /\ matching_rules = <<>>
    /\ record1 = <<>>
    /\ record2 = <<>>
    /\ conf_fields = <<>>
    /\ conf_res = [op |-> "none"]

ConfInit ==
    /\ matching_rules \in {CreateCompositeMatchConfig(w) : w \in FieldWeights}
    /\ record1 \in Records
    /\ record2 \in Records
    /\ conf_fields \in SeqsUpTo(ListedFields, MaxMatchFields)
    /\ conf_res = [op |-> "none"]

CalculateMatchConfidenceCall ==
    /\ conf_res.op = "none"
    /\ conf_res' = [op |-> "calculate_match_confidence",
                    out |-> CalculateMatchConfidence(record1, record2, conf_fields),
                    swapped |-> CalculateMatchConfidence(record2, record1, conf_fields)]
    /\ UNCHANGED <<matching_rules, record1, record2, conf_fields>>

----------------------------------------------------------------------------
(* Specifications *)

KeyNext == NormalizeJoinKeyCall /\ UNCHANGED <<exactVars, fuzzyVars, mergeVars, qualityVars, confVars>>

InitKey == KeyInit /\ ExactIdle /\ FuzzyIdle /\ MergeIdle /\ QualityIdle /\ ConfIdle

SpecKey == InitKey /\ [][KeyNext]_vars

ExactNext ==
    \/ PrepareMatchingFieldsCall /\ UNCHANGED <<keyVars, fuzzyVars, mergeVars, qualityVars, confVars>>
    \/ FindExactMatchesCall /\ UNCHANGED <<keyVars, fuzzyVars, mergeVars, qualityVars, confVars>>
    \/ ExactMatchingCall /\ UNCHANGED <<keyVars, fuzzyVars, mergeVars, qualityVars, confVars>>
    \/ CrossMergeCall /\ UNCHANGED <<keyVars, fuzzyVars, mergeVars, qualityVars, confVars>>

InitExact == KeyIdle /\ ExactInit /\ FuzzyIdle /\ MergeIdle /\ QualityIdle /\ ConfIdle

SpecExact == InitExact /\ [][ExactNext]_vars

FuzzyNext == FindFuzzyMatchesCall /\ UNCHANGED <<keyVars, exactVars, mergeVars, qualityVars, confVars>>

InitFuzzy == KeyIdle /\ ExactIdle /\ FuzzyInit /\ MergeIdle /\ QualityIdle /\ ConfIdle

SpecFuzzy == InitFuzzy /\ [][FuzzyNext]_vars

Next ==
    \/ AddFile /\ UNCHANGED <<keyVars, exactVars, fuzzyVars, qualityVars, confVars>>
    \/ MatchAndMergeCall /\ UNCHANGED <<keyVars, exactVars, fuzzyVars, qualityVars, confVars>>
    \/ DetectBestStrategyCall /\ UNCHANGED <<keyVars, exactVars, fuzzyVars, qualityVars, confVars>>
    \/ ExecuteMatchingStrategyCall /\ UNCHANGED <<keyVars, exactVars, fuzzyVars, qualityVars, confVars>>

Init == KeyIdle /\ ExactIdle /\ FuzzyIdle /\ MergeInit /\ QualityIdle /\ ConfIdle

Spec == Init /\ [][Next]_vars

QualityNext ==
    \/ AssessCompletenessCall /\ UNCHANGED <<keyVars, exactVars, fuzzyVars, mergeVars, confVars>>
    \/ AssessUniquenessCall /\ UNCHANGED <<keyVars, exactVars, fuzzyVars, mergeVars, confVars>>
    \/ AssessAccuracyCall /\ UNCHANGED <<keyVars, exactVars, fuzzyVars, mergeVars, confVars>>
    \/ AssessTimelinessCall /\ UNCHANGED <<keyVars, exactVars, fuzzyVars, mergeVars, confVars>>
    \/ GenerateOverallAssessmentCall /\ UNCHANGED <<keyVars, exactVars, fuzzyVars, mergeVars, confVars>>

InitQuality == KeyIdle /\ ExactIdle /\ FuzzyIdle /\ MergeIdle /\ QualityInit /\ ConfIdle

SpecQuality == InitQuality /\ [][QualityNext]_vars

ConfidenceNext ==
    CalculateMatchConfidenceCall
        /\ UNCHANGED <<keyVars, exactVars, fuzzyVars, mergeVars, qualityVars>>

InitConfidence == KeyIdle /\ ExactIdle /\ FuzzyIdle /\ MergeIdle /\ QualityIdle /\ ConfInit

SpecConfidence == InitConfidence /\ [][ConfidenceNext]_vars

\* one QualityAssessment instance called again and again
HistoryNext ==
    \/ AssessCompletenessCall /\ UNCHANGED <<keyVars, exactVars, fuzzyVars, mergeVars, confVars>>
    \/ AssessConsistencyCall /\ UNCHANGED <<keyVars, exactVars, fuzzyVars, mergeVars, confVars>>
    \/ AssessUniquenessCall /\ UNCHANGED <<keyVars, exactVars, fuzzyVars, mergeVars, confVars>>
    \/ AssessAccuracyCall /\ UNCHANGED <<keyVars, exactVars, fuzzyVars, mergeVars, confVars>>
    \/ AssessTimelinessCall /\ UNCHANGED <<keyVars, exactVars, fuzzyVars, mergeVars, confVars>>
    \/ GenerateOverallAssessmentCall /\ UNCHANGED <<keyVars, exactVars, fuzzyVars, mergeVars, confVars>>
    \/ GenerateQualityReportCall /\ UNCHANGED <<keyVars, exactVars, fuzzyVars, mergeVars, confVars>>
    \/ NextDataset /\ UNCHANGED <<keyVars, exactVars, fuzzyVars, mergeVars, confVars>>

InitHistory == KeyIdle /\ ExactIdle /\ FuzzyIdle /\ MergeIdle /\ HistoryInit /\ ConfIdle

SpecHistory == InitHistory /\ [][HistoryNext]_vars

\* _get_quality_grade does not read a dataset
GradeNext == GetQualityGradeCall /\ UNCHANGED <<keyVars, exactVars, fuzzyVars, mergeVars, confVars>>

InitGrade == KeyIdle /\ ExactIdle /\ FuzzyIdle /\ MergeIdle /\ QualityIdle /\ ConfIdle

SpecGrade == InitGrade /\ [][GradeNext]_vars


----------------------------------------------------------------------------
(* Claims about the exact matcher (SpecExact) *)

UniqueKeys(df) ==
    \A i, j \in 1..NumRows(df) : i # j => df.key[i] # df.key[j]

KeySet(df) == {df.key[i] : i \in 1..NumRows(df)}

\* C1: for datasets whose keys are unique as supplied, find_exact_matches
\* returns at most min(|A|,|B|) rows and _exact_matching at most |A|+|B|
\* rows, also when keys differ only by white space the preparation strips.
C1_JoinRowBounds ==
    (UniqueKeys(df1) /\ UniqueKeys(df2)) =>
        /\ exact_res.op = "find_exact_matches" =>
              Cardinality(exact_res.rows) <= Min(NumRows(df1), NumRows(df2))
        /\ exact_res.op = "_exact_matching" =>
              Cardinality(exact_res.rows) <= NumRows(df1) + NumRows(df2)

\* C2: for datasets with unique keys, find_exact_matches returns exactly one
\* row for every key present in both datasets and none for a key present in
\* one only; _exact_matching holds every key of either side exactly once,
\* with nulls in the columns of the side that lacks the key.
C2_ExactJoinRows ==
    (UniqueKeys(df1) /\ UniqueKeys(df2)) =>
        /\ exact_res.op = "find_exact_matches" =>
              /\ \A i \in 1..NumRows(df1) :
                    Cardinality({row \in exact_res.rows : row.l = i})
                        = (IF df1.key[i] \in KeySet(df2) THEN 1 ELSE 0)
              /\ \A j \in 1..NumRows(df2) :
                    Cardinality({row \in exact_res.rows : row.r = j})
                        = (IF df2.key[j] \in KeySet(df1) THEN 1 ELSE 0)
        /\ exact_res.op = "_exact_matching" =>
              /\ \A i \in 1..NumRows(df1) :
                    Cardinality({row \in exact_res.rows : row.l = i}) = 1
              /\ \A j \in 1..NumRows(df2) :
                    Cardinality({row \in exact_res.rows : row.r = j}) = 1
              /\ \A row \in exact_res.rows :
                    /\ row.l # 0 /\ row.r # 0 => df1.key[row.l] = df2.key[row.r]
                    /\ row.l # 0 /\ row.r = 0 => df1.key[row.l] \notin KeySet(df2)
                    /\ row.l = 0 => row.r # 0 /\ df2.key[row.r] \notin KeySet(df1)

----------------------------------------------------------------------------
(* Claims about the join-key normalizer (SpecKey) *)

\* C3: _normalize_join_key is idempotent: normalizing the normalized value
\* again returns it unchanged.
C3_NormalizeIdempotent == passes = 2 => series = series_once

----------------------------------------------------------------------------
(* Claims about find_fuzzy_matches (SpecFuzzy) *)

FuzzyCalled == fz_res.op = "find_fuzzy_matches"

\* the compared fields of the last call
CalledFields == AvailableFields(fz_left, fz_right, fz_res.match_fields)

\* the call compared rows and the threshold was in range
FuzzyCompared ==
    /\ FuzzyCalled
    /\ CalledFields # <<>>
    /\ 0 <= fz_res.threshold /\ fz_res.threshold <= 100

PairSum(i, j) == fz_res.sums[i][j]

RightIndexes == 1..Len(fz_right.rows)

IsBest(i, j) == \A k \in RightIndexes : PairSum(i, k) <= PairSum(i, j)

Emitted(i) == {k \in 1..Len(fz_res.out.rows) : fz_res.out.rows[k].left = i}

\* trim and collapse of internal white space
TrimCollapse(s) == CollapseWhitespace(Strip(s))

EqualAfterNormalization(i, j) ==
    \A k \in 1..Len(CalledFields) :
        LET f == CalledFields[k]
        IN  /\ ~fz_left.rows[i][f].null
            /\ ~fz_right.rows[j][f].null
            /\ TrimCollapse(fz_left.rows[i][f].s) = TrimCollapse(fz_right.rows[j][f].s)

\* C4: rows whose compared values are equal after normalization (trim and
\* white-space collapse) get similarity_score 1.0 and are accepted at every
\* threshold up to 1.0.
C4_NormalizedEqualScoresOne ==
    FuzzyCompared =>
        \A i \in 1..Len(fz_left.rows) :
            (\E j \in RightIndexes : EqualAfterNormalization(i, j)) =>
                \E k \in Emitted(i) :
                    fz_res.out.rows[k].similarity_score = 100 * Len(CalledFields)

\* C5: a row is emitted for a left row iff the highest field-averaged
\* similarity over all right rows reaches the threshold; the emitted row
\* pairs the left row with a right row attaining that score and carries it.
C5_BestScoreAccepted ==
    FuzzyCompared =>
        /\ fz_res.out.status = "returned"
        /\ \A i \in 1..Len(fz_left.rows) :
              /\ Cardinality(Emitted(i)) <= 1
              /\ Emitted(i) # {} <=>
                    \E j \in RightIndexes :
                        /\ IsBest(i, j)
                        /\ PairSum(i, j) >= fz_res.threshold * Len(CalledFields)
              /\ \A k \in Emitted(i) :
                    LET row == fz_res.out.rows[k]
                    IN  /\ row.right \in RightIndexes
                        /\ IsBest(i, row.right)
                        /\ row.similarity_score = PairSum(i, row.right)
                        /\ row.nfields = Len(CalledFields)

\* a row was emitted for a left row whose second right row is strictly
\* better than the first, at a threshold it just reaches
C5_Witness ==
    /\ FuzzyCompared
    /\ fz_res.threshold = 86
    /\ Len(fz_right.rows) = 2
    /\ Len(fz_res.out.rows) = 1
    /\ fz_res.out.rows[1].right = 2
    /\ fz_res.out.rows[1].similarity_score = 86 * Len(CalledFields)
    /\ PairSum(1, 1) < PairSum(1, 2)

\* C6: when several right rows tie for the best score of a left row, the
\* one that comes first in the right dataset's row order is kept.
C6_FirstOfTiesKept ==
    FuzzyCompared =>
        \A k \in 1..Len(fz_res.out.rows) :
            LET row == fz_res.out.rows[k]
            IN  \A j \in RightIndexes :
                    (IsBest(row.left, j) /\ IsBest(row.left, row.right)) => row.right <= j

\* two right rows with different contents tie for the best score and the
\* first is the one kept
C6_Witness ==
    /\ FuzzyCompared
    /\ Len(fz_right.rows) = 2
    /\ fz_right.rows[1] # fz_right.rows[2]
    /\ Len(fz_res.out.rows) = 1
    /\ PairSum(1, 1) = PairSum(1, 2)
    /\ fz_res.out.rows[1].right = 1

\* C7: find_fuzzy_matches signals an error for every threshold outside
\* [0,1], also when none of the requested fields is in both datasets.
C7_ThresholdOutOfRangeFails ==
    (FuzzyCalled /\ ~(0 <= fz_res.threshold /\ fz_res.threshold <= 100)) =>
        fz_res.out.status = "ValueError"

----------------------------------------------------------------------------
(* Claims about strategy selection and match_and_merge (Spec) *)

LoadedFrames == Values(loaded_files)

\* the non-null fraction of the field in the frame exceeds 0.8 (a frame
\* without rows has no such fraction)
FractionAbove80(df, field) == df.rows > 0 /\ 10 * df.notna[field] > 8 * df.rows

\* C8: _detect_best_strategy returns 'exact' iff some field of the priority
\* list is in every dataset with a minimum non-null fraction above 0.8;
\* otherwise 'composite'; never 'fuzzy'.
C8_StrategyRule ==
    call.op = "_detect_best_strategy" =>
        /\ call.returned \in {"exact", "composite"}
        /\ call.returned = "exact" <=>
              \E k \in 1..Len(common_id_fields) :
                  /\ FoundInAll(LoadedFrames, common_id_fields[k])
                  /\ \A i \in 1..Len(LoadedFrames) :
                        FractionAbove80(LoadedFrames[i], common_id_fields[k])

\* the strategy the selector returns for the cleaned frames
SelectedStrategy ==
    DetectBestStrategy([i \in 1..Len(loaded_files) |-> CleanBasicData(loaded_files[i].df)])

\* C9: with strategy fuzzy or composite (asked for, or selected by auto)
\* match_and_merge never returns a dataset made by exact matching: it
\* returns a result of that strategy or fails; an unknown strategy fails.
C9_NoSilentExactFallback ==
    /\ (call.op = "match_and_merge" /\ call.strategy \in {"fuzzy", "composite"}) =>
          \/ call.status = "raised" /\ call.returned = NoDataset
          \/ call.status = "returned" /\ call.returned.matcher = call.strategy
    /\ (call.op = "match_and_merge" /\ call.strategy = "auto" /\ call.files >= 2
            /\ SelectedStrategy = "composite") =>
          \/ call.status = "raised" /\ call.returned = NoDataset
          \/ call.status = "returned" /\ call.returned.matcher = "composite"
    /\ (call.op = "match_and_merge" /\ call.strategy = "bogus") =>
          call.status = "raised" /\ call.returned = NoDataset
    /\ (call.op = "_execute_matching_strategy"
            /\ call.strategy \in {"fuzzy", "composite"}) =>
          \/ call.out.status \in {"NotImplementedError", "ValueError"}
          \/ call.out.status = "returned" /\ call.out.dataset.matcher = call.strategy
    /\ (call.op = "_execute_matching_strategy" /\ call.strategy = "bogus") =>
          call.out.status = "ValueError"

\* match_and_merge was called with strategy 'fuzzy' on two loaded files and
\* ended with a failure, leaving match_results as it was
C9_Witness ==
    /\ call.op = "match_and_merge"
    /\ call.strategy = "fuzzy"
    /\ call.files >= 2
    /\ call.status = "raised"
    /\ call.returned = NoDataset
    /\ match_results = NoDataset

\* the same rule holds of datasets that all have rows (C8, restricted)
StrategyRuleOfNonEmptyFrames ==
    (\A i \in 1..Len(loaded_files) : loaded_files[i].df.rows > 0) => C8_StrategyRule

\* every loaded frame has rows and a fully populated 'subjid' column
ShareFullKey ==
    \A i \in 1..Len(loaded_files) :
        /\ "subjid" \in Columns(loaded_files[i].df)
        /\ loaded_files[i].df.rows > 0
        /\ loaded_files[i].df.notna["subjid"] = loaded_files[i].df.rows

WithoutSaving(stages) == SelectSeq(stages, LAMBDA s : s # "Saving")

\* C10: for two or more datasets sharing a fully populated unique key and
\* strategy exact or auto, match_and_merge passes through Preparing,
\* StrategySelection, Matching, QualityScoring and FieldProjection in that
\* order and reaches Done, returning the merged dataset and storing it in
\* match_results.
C10_ExactPipelineCompletes ==
    (call.op = "match_and_merge" /\ call.files >= 2 /\ ShareFullKey
        /\ call.strategy \in {"exact", "auto"} /\ call.primary_key = None) =>
        /\ WithoutSaving(call.stages) =
              <<"Preparing", "StrategySelection", "Matching", "QualityScoring",
                "FieldProjection", "Done">>
        /\ call.status = "returned"
        /\ call.returned # NoDataset
        /\ match_results = call.returned



InStages(stages, s) == \E k \in 1..Len(stages) : stages[k] = s

AllStages ==
    <<"Preparing", "StrategySelection", "Matching", "QualityScoring", "FieldProjection", "Done">>

\* C11: if any stage of match_and_merge fails, the call ends in failure, no
\* dataset is returned and match_results keeps the value it had before the
\* call; match_results is only ever assigned a dataset that went through
\* all stages.
C11_FailureLeavesResults ==
    [][/\ (call'.op = "match_and_merge"
              /\ (InStages(call'.stages, "Failed") \/ call'.status = "raised")) =>
            /\ call'.status = "raised"
            /\ call'.error # None
            /\ call'.returned = NoDataset
            /\ match_results' = match_results
       /\ match_results' # match_results =>
            /\ call'.op = "match_and_merge"
            /\ call'.status = "returned"
            /\ WithoutSaving(call'.stages) = AllStages
            /\ match_results' = call'.returned
            /\ match_results'.projected]_vars

\* match_and_merge was called on two loaded files, failed while preparing
\* and returned nothing
C11_Witness ==
    /\ call.op = "match_and_merge"
    /\ call.files = 2
    /\ call.stages = <<"Preparing", "Failed">>
    /\ call.status = "raised"
    /\ call.returned = NoDataset
    /\ match_results = NoDataset

\* C12: match_and_merge with fewer than two loaded datasets fails before
\* preparation, validation, strategy selection or any matcher runs, and
\* leaves loaded_files, match_results and the validator's history unchanged.
C12_TooFewFilesFailsFirst ==
    [][(call'.op = "match_and_merge" /\ call'.files < 2) =>
            /\ call'.status = "raised"
            /\ call'.error = "ValueError"
            /\ call'.stages = <<"Failed">>
            /\ call'.returned = NoDataset
            /\ loaded_files' = loaded_files
            /\ match_results' = match_results
            /\ validation_history' = validation_history]_vars

\* match_and_merge was called with one loaded file and raised ValueError
C12_Witness ==
    /\ call.op = "match_and_merge"
    /\ call.files = 1
    /\ Len(loaded_files) = 1
    /\ call.error = "ValueError"
    /\ validation_history = 0


----------------------------------------------------------------------------
(* Claims about duplicate keys and provenance (SpecExact) *)

\* the number of non-null key cells beyond the first of their value
DuplicateCount(df) ==
    Cardinality({i \in 1..NumRows(df) : ~df.key[i].null})
        - Cardinality({df.key[i] : i \in {x \in 1..NumRows(df) : ~df.key[x].null}})

\* C13: whenever the key column of an input dataset holds a value more than
\* once, a duplicate-key warning carrying the duplicate counts is surfaced
\* before the exact join; no exact join on a non-unique key completes
\* without it.
C13_DuplicateKeyWarned ==
    (exact_res.completed /\ (DuplicateCount(df1) > 0 \/ DuplicateCount(df2) > 0)) =>
        \E k \in 1..Len(exact_res.warnings) :
            exact_res.warnings[k].counts = <<DuplicateCount(df1), DuplicateCount(df2)>>

\* the datasets a '_source_files' value names
NamedFiles(source_files) ==
    CASE source_files = "f0;f1" -> {"f0", "f1"}
      [] source_files = ";f1" -> {"f1"}
      [] source_files = "f0" -> {"f0"}
      [] OTHER -> {}

\* the datasets that hold the key
FilesHolding(key) ==
    {f \in {"f0", "f1"} : key \in KeySet(IF f = "f0" THEN df1 ELSE df2)}

\* C14: in the result of _exact_matching every row's _source_files names
\* exactly the datasets that contain the row's key; a row whose key is in
\* one dataset only lists no other dataset.
C14_ProvenanceExact ==
    exact_res.op = "_exact_matching" =>
        \A row \in exact_res.rows : NamedFiles(row.source_files) = FilesHolding(row.key)


----------------------------------------------------------------------------
(* Claims about the quality assessment (SpecQuality) *)

InUnitInterval(x) == FracLe(Frac(0, 1), x) /\ FracLe(x, Frac(1, 1))

\* C15: for every dataset, field hints and reference date the overall_score
\* of generate_overall_assessment lies in [0,1], and so does each of the
\* five dimension scores, the timeliness score included when dates lie
\* after the reference date.
C15_ScoresInUnitInterval ==
    /\ q_res.op = "generate_overall_assessment" =>
          /\ InUnitInterval(q_res.out.overall_score)
          /\ InUnitInterval(q_res.out.completeness)
          /\ InUnitInterval(q_res.out.consistency)
          /\ InUnitInterval(q_res.out.uniqueness)
          /\ InUnitInterval(q_res.out.accuracy)
          /\ InUnitInterval(q_res.out.timeliness)
    /\ q_res.op = "assess_timeliness" => InUnitInterval(q_res.out.timeliness_score)

AllOnes(m) ==
    /\ FracEq(m.completeness, Frac(1, 1))
    /\ FracEq(m.consistency, Frac(1, 1))
    /\ FracEq(m.uniqueness, Frac(1, 1))
    /\ FracEq(m.accuracy, Frac(1, 1))
    /\ FracEq(m.timeliness, Frac(1, 1))

\* C16: overall_score = 0.25 completeness + 0.20 consistency + 0.20
\* uniqueness + 0.25 accuracy + 0.10 timeliness of the same assessment; the
\* weights sum to 1; five dimension scores of 1 give overall_score 1.
C16_WeightedSum ==
    q_res.op = "generate_overall_assessment" =>
        LET m == q_res.out
        IN  /\ FracEq(m.overall_score,
                      FracAdd(Frac(25 * m.completeness.num, 100 * m.completeness.den),
                      FracAdd(Frac(20 * m.consistency.num, 100 * m.consistency.den),
                      FracAdd(Frac(20 * m.uniqueness.num, 100 * m.uniqueness.den),
                      FracAdd(Frac(25 * m.accuracy.num, 100 * m.accuracy.den),
                              Frac(10 * m.timeliness.num, 100 * m.timeliness.den))))))
            /\ AllOnes(m) => FracEq(m.overall_score, Frac(1, 1))

\* an assessment whose five dimension scores are all 1, with overall_score 1
C16_Witness ==
    /\ q_res.op = "generate_overall_assessment"
    /\ AllOnes(q_res.out)
    /\ FracEq(q_res.out.overall_score, Frac(1, 1))

\* the grade the rule gives a score of num/den, in hundredths
GradeOfRule(score) ==
    CASE 100 * score.num >= 90 * score.den -> "A"
      [] 100 * score.num >= 80 * score.den /\ 100 * score.num < 90 * score.den -> "B"
      [] 100 * score.num >= 70 * score.den /\ 100 * score.num < 80 * score.den -> "C"
      [] 100 * score.num >= 60 * score.den /\ 100 * score.num < 70 * score.den -> "D"
      [] OTHER -> "F"

GradeRank(g) ==
    CASE g = "A" -> 4 [] g = "B" -> 3 [] g = "C" -> 2 [] g = "D" -> 1 [] g = "F" -> 0

\* C17: the grade is A from 0.90, B from 0.80, C from 0.70, D from 0.60 and
\* F otherwise, a boundary value getting the higher grade; every score has
\* exactly one grade and the mapping is monotone in the score.
C17_GradeMapping ==
    q_res.op = "_get_quality_grade" =>
        /\ q_res.out \in {"A", "B", "C", "D", "F"}
        /\ q_res.out = GradeOfRule(q_res.score)
        /\ \A lower \in Scores :
              FracLe(lower, q_res.score) =>
                  GradeRank(GetQualityGrade(lower)) <= GradeRank(q_res.out)

\* a score on the boundary 0.90 was graded A
C17_Witness ==
    /\ q_res.op = "_get_quality_grade"
    /\ FracEq(q_res.score, Frac(9, 10))
    /\ q_res.out = "A"

\* the rows whose cell in column k is not null
FilledRows(df, k) == {i \in 1..Len(df.rows) : ~df.rows[i][k].null}

FilledCells(df) == {c \in (1..Len(df.rows)) \X (1..Len(df.schema)) : ~df.rows[c[1]][c[2]].null}

RepeatedRows(df) ==
    {i \in 1..Len(df.rows) : \E j \in 1..Len(df.rows) : j # i /\ df.rows[j] = df.rows[i]}

\* C19: assess_uniqueness counts every row that is an exact duplicate of
\* another row, the first occurrence included (one row repeated once among
\* 10 rows: duplicate_rows 2, duplicate_rate 0.2), and uniqueness_score =
\* 1 - duplicate_rate.
C19_DuplicatesCounted ==
    (q_res.op = "assess_uniqueness" /\ Len(q_df.rows) >= 1) =>
        /\ q_res.out.duplicate_rows = Cardinality(RepeatedRows(q_df))
        /\ FracEq(q_res.out.duplicate_rate,
                  Frac(Cardinality(RepeatedRows(q_df)), Len(q_df.rows)))
        /\ FracEq(q_res.out.uniqueness_score, FracComplement(q_res.out.duplicate_rate))

\* the finite values among the extreme outliers reported for a column
FiniteOutliers(fa) == IF fa.outliers > 0 THEN fa.outliers - fa.inf_count ELSE 0

\* C20: in assess_accuracy a numeric column's invalid_count is its number of
\* non-finite values plus its number of extreme outliers, so a dataset with
\* an extreme outlier in a numeric column of more than 10 values has
\* invalid_value_count > 0 and overall_accuracy_score < 1.
C20_OutliersInvalid ==
    q_res.op = "assess_accuracy" =>
        /\ \A k \in 1..Len(q_df.schema) :
              q_df.schema[k].dtype = "float64" =>
                  LET fa == q_res.out.field_accuracy[k]
                  IN  fa.invalid_count = fa.inf_count + FiniteOutliers(fa)
        /\ (\E k \in 1..Len(q_df.schema) : FiniteOutliers(q_res.out.field_accuracy[k]) > 0) =>
              /\ q_res.out.invalid_value_count > 0
              /\ ~FracLe(Frac(1, 1), q_res.out.overall_accuracy_score)

\* C21: for a numeric column with the values 10, 12, 11, 13, 999999
\* assess_accuracy records an 'Extreme outliers' issue for the column, the
\* value 999999 being flagged.
C21_ScenarioEFlagged ==
    (q_res.op = "assess_accuracy" /\ q_df = ScenarioE) =>
        q_res.out.field_accuracy[1].outliers >= 1

----------------------------------------------------------------------------
(* Claims about the assessment history (SpecHistory) *)

EntryFields == {"timestamp", "dataframe_shape", "quality_metrics", "overall_score"}

C23_OneFailureTolerated ==
    (/\ q_res.op = "generate_overall_assessment"
     /\ UniquenessRaises(q_df) # TimelinessRaises(q_df, q_res.date_fields)) =>
        q_res.raised = "none"

\* C30: when generate_overall_assessment fails in an assessor nothing is
\* appended to assessment_history, so its length always equals the number
\* of assessments that returned a result.
C30_FailedAssessmentNotRecorded ==
    /\ [](Len(assessment_history) = assessments_returned)
    /\ [][(q_res'.op = "generate_overall_assessment" /\ q_res.op = "none"
             /\ q_res'.raised # "none")
           => assessment_history' = assessment_history]_vars

\* an assessment that failed after one that returned
C30_Witness ==
    /\ q_res.op = "generate_overall_assessment"
    /\ q_res.raised \in {"uniqueness", "timeliness"}
    /\ Len(assessment_history) = 1
    /\ assessments_returned = 1

----------------------------------------------------------------------------
(* Claims about the match confidence (SpecConfidence) *)

ConfidenceCalled == conf_res.op = "calculate_match_confidence"

\* the positions of the listed fields present in both records
InBoth == {i \in 1..Len(conf_fields) :
             conf_fields[i] \in DOMAIN record1 /\ conf_fields[i] \in DOMAIN record2}

\* the trimmed string value, the empty string for None
Trimmed(value) == IF value.none THEN <<>> ELSE Strip(value.s)

EqualTrimmed(i) == Trimmed(record1[conf_fields[i]]) = Trimmed(record2[conf_fields[i]])

NoneInBoth(i) == record1[conf_fields[i]].none /\ record2[conf_fields[i]].none

\* C25: the composite match confidence is 0 whenever a field marked
\* required fails its own threshold, whatever the scores and weights of the
\* other fields.
C25_RequiredFieldVeto ==
    ConfidenceCalled =>
        ((\E i \in InBoth :
            /\ conf_fields[i] \in DOMAIN matching_rules
            /\ matching_rules[conf_fields[i]].is_required
            /\ (IF EqualTrimmed(i) THEN 100 ELSE 0) < matching_rules[conf_fields[i]].threshold)
         => FracEq(conf_res.out, Frac(0, 1)))

\* C27 as stated: calculate_match_confidence returns the number of listed
\* fields present in both records whose trimmed string values are equal
\* divided by the number of listed fields present in both records; the
\* result is in [0,1], is 0.0 when no listed field is present in both
\* records, is 1.0 for identical records, and is symmetric.
C27_ConfidenceFraction ==
    ConfidenceCalled =>
        /\ InBoth # {} =>
              FracEq(conf_res.out,
                     Frac(Cardinality({i \in InBoth : EqualTrimmed(i)}), Cardinality(InBoth)))
        /\ InUnitInterval(conf_res.out)
        /\ InBoth = {} => FracEq(conf_res.out, Frac(0, 1))
        /\ record1 = record2 => FracEq(conf_res.out, Frac(1, 1))
        /\ FracEq(conf_res.out, conf_res.swapped)

\* C27 amended: as stated, the result being 1.0 for identical records in
\* which at least one listed field is present.
C27_ConfidenceFractionOfComparable ==
    ConfidenceCalled =>
        /\ InBoth # {} =>
              FracEq(conf_res.out,
                     Frac(Cardinality({i \in InBoth : EqualTrimmed(i)}), Cardinality(InBoth)))
        /\ InUnitInterval(conf_res.out)
        /\ InBoth = {} => FracEq(conf_res.out, Frac(0, 1))
        /\ (record1 = record2 /\ InBoth # {}) => FracEq(conf_res.out, Frac(1, 1))
        /\ FracEq(conf_res.out, conf_res.swapped)

\* two listed fields present in both records, one equal only after
\* trimming and one different: confidence 1/2
C27_Witness ==
    /\ ConfidenceCalled
    /\ Cardinality(InBoth) = 2
    /\ \E i \in InBoth :
          EqualTrimmed(i) /\ record1[conf_fields[i]] # record2[conf_fields[i]]
    /\ \E i \in InBoth : ~EqualTrimmed(i)
    /\ FracEq(conf_res.out, Frac(1, 2))

\* C28: a missing value never matches: rows whose key is missing in both
\* datasets are not joined by find_exact_matches, rows with a compared field
\* missing in both are not given similarity 1.0 by find_fuzzy_matches, and a
\* field that is None in both records is not counted as matched by
\* calculate_match_confidence.
C28_MissingNeverMatches ==
    /\ exact_res.op = "find_exact_matches" =>
          \A row \in exact_res.rows : ~(df1.key[row.l].null /\ df2.key[row.r].null)
    /\ FuzzyCalled =>
          \A k \in 1..Len(fz_res.out.rows) :
              LET r == fz_res.out.rows[k]
              IN  (\E x \in 1..Len(CalledFields) :
                      /\ fz_left.rows[r.left][CalledFields[x]].null
                      /\ fz_right.rows[r.right][CalledFields[x]].null)
                  => r.similarity_score < 100 * r.nfields
    /\ (ConfidenceCalled /\ InBoth # {}) =>
          FracEq(conf_res.out,
                 Frac(Cardinality({i \in InBoth : EqualTrimmed(i) /\ ~NoneInBoth(i)}),
                      Cardinality(InBoth)))

----------------------------------------------------------------------------
(* Claims about strategy selection and the exact matcher (Spec) *)

\* C29: whenever automatic strategy selection returns 'exact' and no
\* primary key is given, the exact matcher finds a key and joins on a field
\* that passed the selector's completeness test: it never fails with 'no
\* common primary key' and never joins on an identifier field whose minimum
\* non-null fraction is 0.8 or less.
C29_SelectedExactFindsKey ==
    (/\ call.op = "_execute_matching_strategy"
     /\ call.strategy = "exact"
     /\ call.primary_key = None
     /\ DetectBestStrategy(LoadedFrames) = "exact") =>
        /\ call.out.status = "returned"
        /\ \A i \in 1..Len(LoadedFrames) :
              FractionAbove80(LoadedFrames[i], call.out.dataset.key)

----------------------------------------------------------------------------
(* Claims about the datasets of the caller *)

============================================================================
